---- MODULE Spec2Model ----
(***************************************************************************)
(* The persistence layer of refboard (src-tauri/src/database.rs and the    *)
(* command handlers of src-tauri/src/commands.rs): one JSON document per   *)
(* board in the boards directory, one JSON document for the shared asset   *)
(* library.                                                                *)
(*                                                                         *)
(* Modelling decisions:                                                    *)
(*  - the boards directory is a function from file paths to file contents; *)
(*    a path is the sequence of the pieces format!("{}-{}.json") joins;    *)
(*  - a file content is the JSON document serde writes (camelCase keys,    *)
(*    None written as null), or a text that does not parse as a Board;     *)
(*  - fs::read_dir yields entries in an unspecified order, so every scan   *)
(*    that stops at a first match is a choice among the matches;           *)
(*  - now_millis() reads the variable now, which the environment advances  *)
(*    (Tick); two calls without a Tick in between fall in the same         *)
(*    millisecond.  The clock never runs backwards;                        *)
(*  - the file system itself does not fail (no permission error, no full   *)
(*    disk).                                                               *)
(***************************************************************************)
EXTENDS Integers, Sequences, FiniteSets, TLC

VARIABLES files, lib, now, last, calls

vars == <<files, lib, now, last, calls>>

(***************************************************************************)
(* calls holds, for each of two callers, the call it has in flight when    *)
(* calls are followed step by step through their file-system operations    *)
(* (StepSpec, LibStepSpec); in the other specifications every call runs    *)
(* from start to end as one action and calls stays idle.                   *)
(***************************************************************************)
Callers == {"c1", "c2"}

Idle == [pc |-> "idle"]

(***************************************************************************)
(* Bounds of the model.                                                    *)
(***************************************************************************)
MaxTime == 2

MaxBoards == 2

(***************************************************************************)
(* Rust's Option and Result.                                               *)
(***************************************************************************)
None == [some |-> FALSE]

Some(v) == [some |-> TRUE, val |-> v]

Ok(v) == [ok |-> TRUE, val |-> v]

Err(msg) == [ok |-> FALSE, err |-> msg]

UnitValue == <<>>

(***************************************************************************)
(* JSON values as serde_json writes and reads them.                        *)
(***************************************************************************)
JNull == [null |-> TRUE]

JStr(s) == [str |-> s]

OptToJson(o) == IF o.some THEN JStr(o.val) ELSE JNull

JsonToOpt(j) == IF j = JNull THEN None ELSE Some(j.str)

(***************************************************************************)
(* Layer and Asset (database.rs 6-30).                                     *)
(***************************************************************************)
default_visible == TRUE

LayerToJson(l) ==
    [id |-> l.id, name |-> JStr(l.name), src |-> JStr(l.src), x |-> l.x, y |-> l.y,
     width |-> l.width, height |-> l.height, visible |-> l.visible]

JsonToLayer(j) ==
    [id |-> j.id, name |-> j.name.str, src |-> j.src.str, x |-> j.x, y |-> j.y,
     width |-> j.width, height |-> j.height,
     visible |-> IF "visible" \in DOMAIN j THEN j.visible ELSE default_visible]

AssetToJson(a) == [id |-> a.id, name |-> JStr(a.name), src |-> JStr(a.src)]

JsonToAsset(j) == [id |-> j.id, name |-> j.name.str, src |-> j.src.str]

\* Vec<Layer> and Vec<Asset>: element by element, in order.
LayersToJson(ls) == [i \in 1..Len(ls) |-> LayerToJson(ls[i])]

JsonToLayers(js) == [i \in 1..Len(js) |-> JsonToLayer(js[i])]

AssetsToJson(as) == [i \in 1..Len(as) |-> AssetToJson(as[i])]

JsonToAssets(js) == [i \in 1..Len(js) |-> JsonToAsset(js[i])]

(***************************************************************************)
(* Board (database.rs 32-44) and its serde derive.  The fields view_state, *)
(* strokes, objects and groups are those commands.rs 29-32 and 57-68 use;  *)
(* their declaration is in a revision of database.rs later than the one at *)
(* hand, so their encoding is taken from the specification: optional       *)
(* opaque payloads carried through without interpretation.                 *)
(***************************************************************************)
\* How an optional opaque payload is written and read back.
OpaqueToJson(o) == IF o.some THEN JStr(o.val) ELSE JNull

JsonToOpaque(j, key) == IF key \in DOMAIN j /\ j[key] # JNull THEN Some(j[key].str) ELSE None

\* to_string_pretty as it would be if thumbnail were skipped when serializing.
to_string_pretty_NoThumbnail(b) ==
    [id |-> b.id, name |-> JStr(b.name), bgColor |-> JStr(b.bg_color),
     createdAt |-> b.created_at, updatedAt |-> b.updated_at,
     layers |-> LayersToJson(b.layers),
     assets |-> AssetsToJson(b.assets),
     thumbnail |-> JNull,
     viewState |-> OpaqueToJson(b.view_state), strokes |-> OpaqueToJson(b.strokes),
     objects |-> OpaqueToJson(b.objects), groups |-> OpaqueToJson(b.groups)]

\* serde_json::to_string_pretty(board)
to_string_pretty(b) ==
    [id |-> b.id, name |-> JStr(b.name), bgColor |-> JStr(b.bg_color),
     createdAt |-> b.created_at, updatedAt |-> b.updated_at,
     layers |-> LayersToJson(b.layers),
     assets |-> AssetsToJson(b.assets),
     thumbnail |-> OptToJson(b.thumbnail),
     viewState |-> OpaqueToJson(b.view_state), strokes |-> OpaqueToJson(b.strokes),
     objects |-> OpaqueToJson(b.objects), groups |-> OpaqueToJson(b.groups)]

\* The Board a document that parses deserializes to.
JsonToBoard(j) ==
    [id |-> j.id, name |-> j.name.str, bg_color |-> j.bgColor.str,
     created_at |-> j.createdAt, updated_at |-> j.updatedAt,
     layers |-> JsonToLayers(j.layers),
     assets |-> JsonToAssets(j.assets),
     thumbnail |-> IF "thumbnail" \in DOMAIN j THEN JsonToOpt(j.thumbnail) ELSE None,
     view_state |-> JsonToOpaque(j, "viewState"), strokes |-> JsonToOpaque(j, "strokes"),
     objects |-> JsonToOpaque(j, "objects"), groups |-> JsonToOpaque(j, "groups")]

\* serde_json::from_str::<Board>(content)
from_str(content) ==
    IF "id" \in DOMAIN content THEN Ok(JsonToBoard(content)) ELSE Err("parse error")

(***************************************************************************)
(* File names (database.rs 78-89).  A name is a sequence of characters.    *)
(***************************************************************************)
is_alphanumeric(c) == c \in {"a", "A", "b", "1"}

to_lowercase(c) == IF c = "A" THEN "a" ELSE c

sanitize_filename(name) ==
    [i \in 1..Len(name) |->
        to_lowercase(IF is_alphanumeric(name[i]) \/ name[i] = "-" \/ name[i] = "_"
                     THEN name[i] ELSE "-")]

\* get_board_path as it would be if the file name were the sanitized name
\* alone.
get_board_path_NameOnly(name, id) == sanitize_filename(name) \o <<".json">>

get_board_path(name, id) == sanitize_filename(name) \o <<"-", ToString(id), ".json">>

\* path.extension().map_or(false, |e| e == "json")
HasJsonExtension(path) == Len(path) > 0 /\ path[Len(path)] = ".json"

(***************************************************************************)
(* Directory and file primitives.                                          *)
(***************************************************************************)
\* fs::write: create or replace the file at path.
WriteFile(fs, path, content) ==
    [p \in DOMAIN fs \cup {path} |-> IF p = path THEN content ELSE fs[p]]

\* fs::remove_file
RemoveFile(fs, path) == [p \in DOMAIN fs \ {path} |-> fs[p]]

\* The entries a scan looks into: the .json files whose text parses as a Board.
Parses(content) == "id" \in DOMAIN content

ParsedEntries(fs) == {p \in DOMAIN fs : HasJsonExtension(p) /\ Parses(fs[p])}

BoardAt(fs, p) == from_str(fs[p]).val

\* The entries whose document carries the id: board.id == id after the parse.
EntriesWithId(fs, id) == {p \in ParsedEntries(fs) : fs[p].id = id}

NotFound(id) == "Board " \o ToString(id) \o " not found"

(***************************************************************************)
(* Board Store (database.rs 105-196, 237-250).  Each operator gives the    *)
(* set of outcomes the call can have on the directory fs.                  *)
(***************************************************************************)
now_millis == now

BoardMetadata(b) ==
    [id |-> b.id, name |-> b.name, bg_color |-> b.bg_color, created_at |-> b.created_at,
     updated_at |-> b.updated_at, thumbnail |-> b.thumbnail]

\* load_all_boards as it would be if a file that does not parse ended the
\* listing with the parse error.
load_all_boards_Strict(fs) ==
    IF \E p \in DOMAIN fs : ~Parses(fs[p]) THEN Err("EOF while parsing a value")
    ELSE Ok([m \in {BoardMetadata(BoardAt(fs, p)) : p \in ParsedEntries(fs)} |->
               Cardinality({p \in ParsedEntries(fs) : BoardMetadata(BoardAt(fs, p)) = m})])

\* The Vec load_all_boards returns, as the bag of its entries: one entry per
\* file that parses, in the order read_dir yields them, which is unspecified.
load_all_boards(fs) ==
    LET metas == {BoardMetadata(BoardAt(fs, p)) : p \in ParsedEntries(fs)}
    IN  Ok([m \in metas |->
              Cardinality({p \in ParsedEntries(fs) : BoardMetadata(BoardAt(fs, p)) = m})])

load_board(fs, id) ==
    LET hits == EntriesWithId(fs, id)
    IN  IF hits = {} THEN {Err(NotFound(id))} ELSE {Ok(BoardAt(fs, p)) : p \in hits}

\* The rename pass of save_board: the first entry with the board's id and
\* another name is removed, and the scan stops there.
StaleEntries(fs, board) ==
    {p \in EntriesWithId(fs, board.id) : fs[p].name.str # board.name}

RenamePass(fs, board) ==
    LET stale == StaleEntries(fs, board)
    IN  IF stale = {} THEN {fs} ELSE {RemoveFile(fs, p) : p \in stale}

\* save_board as it would be without its rename pass.
save_board_NoRenamePass(fs, board) ==
    {WriteFile(fs, get_board_path(board.name, board.id), to_string_pretty(board))}

\* save_board as it would be if a renamed board were written over its old file.
save_board_KeepPath(fs, board) ==
    IF StaleEntries(fs, board) = {}
    THEN {WriteFile(fs, get_board_path(board.name, board.id), to_string_pretty(board))}
    ELSE {WriteFile(fs, p, to_string_pretty(board)) : p \in StaleEntries(fs, board)}

\* The directories save_board can leave behind.
save_board(fs, board) ==
    {WriteFile(fs1, get_board_path(board.name, board.id), to_string_pretty(board)) :
        fs1 \in RenamePass(fs, board)}

\* delete_board as it would be if it reported success without removing the file.
delete_board_KeepFile(fs, id) ==
    IF EntriesWithId(fs, id) = {} THEN {<<Err(NotFound(id)), fs>>} ELSE {<<Ok(UnitValue), fs>>}

\* delete_board as it would be if an absent id counted as deleted.
delete_board_Idempotent(fs, id) ==
    IF EntriesWithId(fs, id) = {} THEN {<<Ok(UnitValue), fs>>}
    ELSE {<<Ok(UnitValue), RemoveFile(fs, p)>> : p \in EntriesWithId(fs, id)}

\* The (result, directory) pairs delete_board can end with.
delete_board(fs, id) ==
    LET hits == EntriesWithId(fs, id)
    IN  IF hits = {} THEN {<<Err(NotFound(id)), fs>>}
        ELSE {<<Ok(UnitValue), RemoveFile(fs, p)>> : p \in hits}

\* retain as it would be if only the first entry with the id were dropped.
RetainNot_FirstOnly(assets, id) ==
    LET hits == {i \in 1..Len(assets) : assets[i].id = id}
        first == CHOOSE i \in hits : \A j \in hits : i <= j
    IN  IF hits = {} THEN assets
        ELSE SubSeq(assets, 1, first - 1) \o SubSeq(assets, first + 1, Len(assets))

\* all_assets.retain(|a| a.id != id)
RetainNot(assets, id) == SelectSeq(assets, LAMBDA a : a.id # id)

(***************************************************************************)
(* The values the model draws its inputs from.                             *)
(***************************************************************************)
Names == {<<"a">>, <<"A">>, <<"/">>}

BgColors == {"#fff"}

Layer1 == [id |-> 1, name |-> "l", src |-> "img", x |-> 0, y |-> 0, width |-> 4,
           height |-> 3, visible |-> FALSE]

AssetX == [id |-> 7, name |-> "x", src |-> "sx"]

AssetY == [id |-> 8, name |-> "y", src |-> "sy"]

AssetZ == [id |-> 9, name |-> "z", src |-> "sz"]

AssetW == [id |-> 7, name |-> "w", src |-> "sw"]

AssetIds == {7}

NoUpdate ==
    [name |-> None, bg_color |-> None, layers |-> None, assets |-> None, thumbnail |-> None,
     view_state |-> None, strokes |-> None, objects |-> None, groups |-> None]

Updates ==
    {NoUpdate}
    \cup {[NoUpdate EXCEPT !.name = Some(n)] : n \in Names}
    \cup {[NoUpdate EXCEPT !.bg_color = Some("#000"), !.layers = Some(<<Layer1>>),
                           !.assets = Some(<<AssetX, AssetY, AssetZ, AssetW>>),
                           !.thumbnail = Some("png"), !.view_state = Some("view"),
                           !.strokes = Some("ink"), !.objects = Some("objs"),
                           !.groups = Some("grps")]}

Ids == 1..MaxTime

(***************************************************************************)
(* The command handlers (commands.rs 7-104): each runs to completion.      *)
(* last records the call just made: its arguments, what it returned (ret)  *)
(* and, for the read-modify-write handlers, what their load_board call     *)
(* returned (loaded).                                                      *)
(***************************************************************************)
\* ApplyUpdates as it would be if an absent thumbnail cleared the stored one.
ApplyUpdates_ClearAbsent(board, updates) ==
    [id |-> board.id,
     name |-> IF updates.name.some THEN updates.name.val ELSE board.name,
     bg_color |-> IF updates.bg_color.some THEN updates.bg_color.val ELSE board.bg_color,
     created_at |-> board.created_at,
     updated_at |-> board.updated_at,
     layers |-> IF updates.layers.some THEN updates.layers.val ELSE board.layers,
     assets |-> IF updates.assets.some THEN updates.assets.val ELSE board.assets,
     thumbnail |-> updates.thumbnail,
     view_state |-> IF updates.view_state.some THEN Some(updates.view_state.val)
                    ELSE board.view_state,
     strokes |-> IF updates.strokes.some THEN Some(updates.strokes.val) ELSE board.strokes,
     objects |-> IF updates.objects.some THEN Some(updates.objects.val) ELSE board.objects,
     groups |-> IF updates.groups.some THEN Some(updates.groups.val) ELSE board.groups]

\* commands.rs 42-68: the fields present in the update overwrite the board's.
ApplyUpdates(board, updates) ==
    [id |-> board.id,
     name |-> IF updates.name.some THEN updates.name.val ELSE board.name,
     bg_color |-> IF updates.bg_color.some THEN updates.bg_color.val ELSE board.bg_color,
     created_at |-> board.created_at,
     updated_at |-> board.updated_at,
     layers |-> IF updates.layers.some THEN updates.layers.val ELSE board.layers,
     assets |-> IF updates.assets.some THEN updates.assets.val ELSE board.assets,
     thumbnail |-> IF updates.thumbnail.some THEN Some(updates.thumbnail.val)
                   ELSE board.thumbnail,
     view_state |-> IF updates.view_state.some THEN Some(updates.view_state.val)
                    ELSE board.view_state,
     strokes |-> IF updates.strokes.some THEN Some(updates.strokes.val) ELSE board.strokes,
     objects |-> IF updates.objects.some THEN Some(updates.objects.val) ELSE board.objects,
     groups |-> IF updates.groups.some THEN Some(updates.groups.val) ELSE board.groups]

\* NewBoard as it would be if a new board started with an empty thumbnail string.
NewBoard_EmptyThumbnail(name, bg_color, t) ==
    [id |-> t, name |-> name, bg_color |-> bg_color, created_at |-> t, updated_at |-> t,
     layers |-> <<>>, assets |-> <<>>, thumbnail |-> Some(""), view_state |-> None,
     strokes |-> None, objects |-> None, groups |-> None]

\* commands.rs 19-33: the board create_board builds at time t.
NewBoard(name, bg_color, t) ==
    [id |-> t, name |-> name, bg_color |-> bg_color, created_at |-> t, updated_at |-> t,
     layers |-> <<>>, assets |-> <<>>, thumbnail |-> None, view_state |-> None,
     strokes |-> None, objects |-> None, groups |-> None]

get_all_boards ==
    /\ last' = [op |-> "get_all_boards", ret |-> load_all_boards(files)]
    /\ UNCHANGED <<files, lib, now, calls>>

get_board(id) ==
    /\ \E r \in load_board(files, id) :
          last' = [op |-> "get_board", id |-> id, ret |-> r]
    /\ UNCHANGED <<files, lib, now, calls>>

create_board(name, bg_color) ==
    LET board == NewBoard(name, bg_color, now_millis)
    IN  /\ \E fs \in save_board(files, board) : files' = fs
        /\ Cardinality(DOMAIN files') <= MaxBoards
        /\ last' = [op |-> "create_board", ret |-> Ok(board)]
        /\ UNCHANGED <<lib, now, calls>>

update_board(id, updates) ==
    /\ \E r \in load_board(files, id) :
          IF ~r.ok
          THEN /\ files' = files
               /\ last' = [op |-> "update_board", id |-> id, updates |-> updates,
                           loaded |-> r, ret |-> r]
          ELSE LET board == [ApplyUpdates(r.val, updates) EXCEPT !.updated_at = now_millis]
               IN  /\ \E fs \in save_board(files, board) : files' = fs
                   /\ last' = [op |-> "update_board", id |-> id, updates |-> updates,
                               loaded |-> r, ret |-> Ok(board)]
    /\ UNCHANGED <<lib, now, calls>>

cmd_delete_board(id) ==
    /\ \E out \in delete_board(files, id) :
          /\ files' = out[2]
          /\ last' = [op |-> "delete_board", id |-> id, ret |-> out[1]]
    /\ UNCHANGED <<lib, now, calls>>

\* database.rs 237-243
delete_board_asset(board_id, asset_id) ==
    /\ \E r \in load_board(files, board_id) :
          IF ~r.ok
          THEN /\ files' = files
               /\ last' = [op |-> "delete_board_asset", id |-> board_id,
                           asset_id |-> asset_id, loaded |-> r, ret |-> r]
          ELSE LET board == [r.val EXCEPT !.assets = RetainNot(r.val.assets, asset_id),
                                          !.updated_at = now_millis]
               IN  /\ \E fs \in save_board(files, board) : files' = fs
                   /\ last' = [op |-> "delete_board_asset", id |-> board_id,
                               asset_id |-> asset_id, loaded |-> r, ret |-> Ok(board)]
    /\ UNCHANGED <<lib, now, calls>>

(***************************************************************************)
(* Asset Library (database.rs 198-235): the document all_assets.json.      *)
(* lib is the file: [array |-> the JSON array it holds], a text that does  *)
(* not parse, or no file at all.                                           *)
(***************************************************************************)
load_all_assets_OrEmpty(file) ==
    IF "array" \in DOMAIN file THEN Ok(JsonToAssets(file.array)) ELSE Ok(<<>>)

load_all_assets(file) ==
    IF "missing" \in DOMAIN file THEN Err("No such file or directory (os error 2)")
    ELSE IF "array" \in DOMAIN file THEN Ok(JsonToAssets(file.array))
    ELSE Err("EOF while parsing a value")

\* The document save_all_assets writes.
save_all_assets(assets) == [array |-> AssetsToJson(assets)]

\* all_assets.iter().find(|a| a.name == name && a.src == src)
FindAsset(assets, name, src) ==
    LET found == {i \in 1..Len(assets) : assets[i].name = name /\ assets[i].src = src}
    IN  IF found = {} THEN None
        ELSE Some(assets[CHOOSE i \in found : \A j \in found : i <= j])

\* add_to_all_assets as it would be without the search for an existing entry.
add_to_all_assets_NoDedup(file, name, src) ==
    LET loaded == load_all_assets(file)
        asset == [id |-> now_millis, name |-> name, src |-> src]
    IN  IF ~loaded.ok THEN <<loaded, file>>
        ELSE <<Ok(asset), save_all_assets(Append(loaded.val, asset))>>

\* The (result, document) pair add_to_all_assets ends with; the u64 of
\* now_millis() is below 2^53, so `as f64` keeps its value.
add_to_all_assets(file, name, src) ==
    LET loaded == load_all_assets(file)
        existing == FindAsset(loaded.val, name, src)
        asset == [id |-> now_millis, name |-> name, src |-> src]
    IN  IF ~loaded.ok THEN <<loaded, file>>
        ELSE IF existing.some THEN <<Ok(existing.val), file>>
        ELSE <<Ok(asset), save_all_assets(Append(loaded.val, asset))>>

\* delete_from_all_assets as it would be if an id without an entry were an
\* error.
delete_from_all_assets_MustExist(file, id) ==
    LET loaded == load_all_assets(file)
    IN  IF ~loaded.ok THEN <<loaded, file>>
        ELSE IF \A i \in 1..Len(loaded.val) : loaded.val[i].id # id
             THEN <<Err("Asset not found"), file>>
        ELSE <<Ok(UnitValue), save_all_assets(RetainNot(loaded.val, id))>>

delete_from_all_assets(file, id) ==
    LET loaded == load_all_assets(file)
    IN  IF ~loaded.ok THEN <<loaded, file>>
        ELSE <<Ok(UnitValue), save_all_assets(RetainNot(loaded.val, id))>>

LibNames == {"cat", "dog"}

LibSrcs == {"data:1", "data:2"}

get_all_assets ==
    /\ last' = [op |-> "get_all_assets", ret |-> load_all_assets(lib)]
    /\ UNCHANGED <<files, lib, now, calls>>

cmd_add_to_all_assets(name, src) ==
    /\ lib' = add_to_all_assets(lib, name, src)[2]
    /\ last' = [op |-> "add_to_all_assets", name |-> name, src |-> src,
                ret |-> add_to_all_assets(lib, name, src)[1]]
    /\ UNCHANGED <<files, now, calls>>

\* delete_from_all_assets as it would be if it also took the asset out of
\* every board's own list.
cmd_delete_from_all_assets_Cascade(id) ==
    /\ lib' = delete_from_all_assets(lib, id)[2]
    /\ files' = [p \in DOMAIN files |->
                    IF Parses(files[p])
                    THEN [files[p] EXCEPT !.assets =
                             AssetsToJson(RetainNot(JsonToAssets(files[p].assets), id))]
                    ELSE files[p]]
    /\ last' = [op |-> "delete_from_all_assets", id |-> id,
                ret |-> delete_from_all_assets(lib, id)[1]]
    /\ UNCHANGED <<now, calls>>

cmd_delete_from_all_assets(id) ==
    /\ lib' = delete_from_all_assets(lib, id)[2]
    /\ last' = [op |-> "delete_from_all_assets", id |-> id,
                ret |-> delete_from_all_assets(lib, id)[1]]
    /\ UNCHANGED <<files, now, calls>>

\* all_assets.json as a path that does not exist.
MissingFile == [missing |-> TRUE]

\* init_storage at the start of a run: all_assets.json is written as an
\* empty array only when the path does not exist; a file that is there is
\* left alone, whatever it holds.
init_storage ==
    /\ lib' = IF lib = MissingFile THEN save_all_assets(<<>>) ELSE lib
    /\ last' = [op |-> "init_storage"]
    /\ UNCHANGED <<files, now, calls>>

\* all_assets.json removed from the data directory from outside the
\* application; no operation of the application removes it.
LibRemoved ==
    /\ lib # MissingFile
    /\ lib' = MissingFile
    /\ last' = [op |-> "env"]
    /\ UNCHANGED <<files, now, calls>>

\* A write cut short (a crash in the middle of fs::write, see the note on
\* whole-document writes) leaves a file whose text no longer parses.
TruncatedDoc == [truncated |-> TRUE]

Truncate(path) ==
    /\ path \in DOMAIN files
    /\ files[path] # TruncatedDoc
    /\ files' = [files EXCEPT ![path] = TruncatedDoc]
    /\ last' = [op |-> "truncate"]
    /\ UNCHANGED <<lib, now, calls>>

\* The same for all_assets.json, which save_all_assets rewrites whole.
LibTruncate ==
    /\ "array" \in DOMAIN lib
    /\ lib' = TruncatedDoc
    /\ last' = [op |-> "env"]
    /\ UNCHANGED <<files, now, calls>>

\* The clock moves on by a millisecond.
Tick ==
    /\ now < MaxTime
    /\ now' = now + 1
    /\ last' = [op |-> "tick"]
    /\ UNCHANGED <<files, lib, calls>>

\* init_storage (database.rs 91-103): an empty boards directory and an empty
\* library document.
Init ==
    /\ files = <<>>
    /\ lib = save_all_assets(<<>>)
    /\ now = 1
    /\ last = [op |-> "init_storage"]
    /\ calls = [c \in Callers |-> Idle]

Next ==
    \/ Tick
    \/ get_all_boards
    \/ \E id \in Ids : get_board(id)
    \/ \E name \in Names, bg_color \in BgColors : create_board(name, bg_color)
    \/ \E id \in Ids, updates \in Updates : update_board(id, updates)
    \/ \E id \in Ids : cmd_delete_board(id)
    \/ \E id \in Ids, asset_id \in AssetIds : delete_board_asset(id, asset_id)
    \/ \E path \in DOMAIN files : Truncate(path)

Spec == Init /\ [][Next]_vars

\* The Asset Library on its own: it shares no file with the Board Store.
LibNext ==
    \/ Tick
    \/ get_all_assets
    \/ \E name \in LibNames, src \in LibSrcs : cmd_add_to_all_assets(name, src)
    \/ \E id \in Ids : cmd_delete_from_all_assets(id)

LibSpec == Init /\ [][LibNext]_vars

\* Boards and the asset library side by side, with inputs that make the two
\* sides share names, sources and ids: the library is given an entry with the
\* name and source of a board asset, and asset ids are drawn from the board
\* assets' ids and from the clock values that become library ids.
JointNames == {<<"a">>}

JointUpdates == {u \in Updates : u.assets.some}

JointAssetIds == AssetIds \cup Ids

JointNext ==
    \/ Tick
    \/ \E name \in JointNames, bg_color \in BgColors : create_board(name, bg_color)
    \/ \E id \in Ids, updates \in JointUpdates : update_board(id, updates)
    \/ \E id \in Ids : cmd_delete_board(id)
    \/ \E board_id \in Ids, asset_id \in JointAssetIds :
          delete_board_asset(board_id, asset_id)
    \/ cmd_add_to_all_assets(AssetX.name, AssetX.src)
    \/ \E id \in JointAssetIds : cmd_delete_from_all_assets(id)

JointSpec == Init /\ [][JointNext]_vars

\* The asset library in a data directory where all_assets.json can be cut
\* short by a crash or removed between runs.
LibEnvNext ==
    \/ Tick
    \/ get_all_assets
    \/ \E name \in LibNames, src \in LibSrcs : cmd_add_to_all_assets(name, src)
    \/ \E id \in Ids : cmd_delete_from_all_assets(id)
    \/ init_storage
    \/ LibRemoved
    \/ LibTruncate

LibEnvSpec == Init /\ [][LibEnvNext]_vars

(***************************************************************************)
(* What a call that follows the current state would return.                *)
(***************************************************************************)
(* The Board Store call by call, one file-system operation per step.       *)
(* Nothing in database.rs or commands.rs holds a lock, so the steps of two *)
(* calls in flight (two dispatched commands, or two running instances of   *)
(* the application on one data directory) can alternate in any order.      *)
(* A call in flight is a record: pc is the place it has reached, named     *)
(* after the function whose loop or statement comes next; todo is the part *)
(* of its directory listing it has not looked into yet.                    *)
(***************************************************************************)
AllIdle == \A c \in Callers : calls[c].pc = "idle"

\* fs::read_dir: the entries of the directory as it is when the scan opens
\* it, with a .json extension.
read_dir(fs) == {p \in DOMAIN fs : HasJsonExtension(p)}

\* fs::read_to_string and serde_json::from_str on one entry, inside
\* `if let Ok(..)`: a file that has gone since the listing, or that does not
\* parse, gives nothing and the scan moves on.
ReadEntry(fs, p) ==
    IF p \in DOMAIN fs /\ Parses(fs[p]) THEN Some(BoardAt(fs, p)) ELSE None

\* The function whose scan opens a call.
FirstScan(op) ==
    CASE op \in {"get_board", "update_board", "delete_board_asset"} -> "load_board"
      [] op = "delete_board" -> "delete_board"
      [] op = "get_all_boards" -> "load_all_boards"

Done(call, ret) == [pc |-> "done", op |-> call.op, id |-> call.id, arg |-> call.arg, ret |-> ret]

Completed(c, ret) == [op |-> calls[c].op, id |-> calls[c].id, caller |-> c, ret |-> ret]

\* A command is dispatched: its first scan opens the directory.
Begin(c, op, id, arg) ==
    /\ calls[c].pc = "idle"
    /\ calls' = [calls EXCEPT ![c] =
                    [pc |-> FirstScan(op), op |-> op, id |-> id, arg |-> arg,
                     todo |-> read_dir(files), acc |-> <<>>]]
    /\ UNCHANGED <<files, lib, now, last>>

\* load_board, one entry of its scan: the first board with the id ends it.
LoadStep(c) ==
    /\ calls[c].pc = "load_board"
    /\ \E p \in calls[c].todo :
        LET call == calls[c]
            e == ReadEntry(files, p)
        IN
           IF e.some /\ e.val.id = call.id
           THEN IF call.op = "get_board"
                THEN /\ calls' = [calls EXCEPT ![c] = Done(call, Ok(e.val))]
                     /\ last' = Completed(c, Ok(e.val))
                ELSE /\ calls' = [calls EXCEPT ![c] =
                                     [pc |-> "loaded", op |-> call.op, id |-> call.id,
                                      arg |-> call.arg, loaded |-> e.val]]
                     /\ last' = last
           ELSE /\ calls' = [calls EXCEPT ![c].todo = call.todo \ {p}]
                /\ last' = last
    /\ UNCHANGED <<files, lib, now>>

\* load_board, scan exhausted: Err("Board {id} not found"), which the `?` of
\* update_board and delete_board_asset returns to the caller.
LoadEnd(c) ==
    /\ calls[c].pc = "load_board"
    /\ calls[c].todo = {}
    /\ calls' = [calls EXCEPT ![c] = Done(calls[c], Err(NotFound(calls[c].id)))]
    /\ last' = Completed(c, Err(NotFound(calls[c].id)))
    /\ UNCHANGED <<files, lib, now>>

\* update_board (commands.rs 41-70) and delete_board_asset (database.rs
\* 239-240) change the loaded board in memory and stamp updated_at, then
\* save_board opens the directory for its rename pass.
SaveBegin(c) ==
    LET call == calls[c]
        changed == IF call.op = "update_board"
                   THEN ApplyUpdates(call.loaded, call.arg)
                   ELSE [call.loaded EXCEPT !.assets = RetainNot(call.loaded.assets, call.arg)]
        board == [changed EXCEPT !.updated_at = now_millis]
    IN  /\ call.pc = "loaded"
        /\ calls' = [calls EXCEPT ![c] =
                        [pc |-> "save_board", op |-> call.op, id |-> call.id,
                         arg |-> call.arg, loaded |-> call.loaded, board |-> board,
                         todo |-> read_dir(files)]]
        /\ UNCHANGED <<files, lib, now, last>>

\* save_board, one entry of the rename pass: an entry with the board's id
\* and another name is the stale file.
RenameStep(c) ==
    /\ calls[c].pc = "save_board"
    /\ \E p \in calls[c].todo :
        LET call == calls[c]
            e == ReadEntry(files, p)
        IN  calls' = [calls EXCEPT ![c] =
                        IF e.some /\ e.val.id = call.board.id /\ e.val.name # call.board.name
                        THEN [pc |-> "remove_stale", op |-> call.op, id |-> call.id,
                              arg |-> call.arg, loaded |-> call.loaded,
                              board |-> call.board, target |-> p]
                        ELSE [call EXCEPT !.todo = call.todo \ {p}]]
    /\ UNCHANGED <<files, lib, now, last>>

\* `let _ = fs::remove_file(&path); break;`: the outcome is dropped, a file
\* that has gone in the meantime is no error.
RemoveStale(c) ==
    LET call == calls[c]
    IN  /\ call.pc = "remove_stale"
        /\ files' = RemoveFile(files, call.target)
        /\ calls' = [calls EXCEPT ![c] =
                        [pc |-> "write", op |-> call.op, id |-> call.id, arg |-> call.arg,
                         loaded |-> call.loaded, board |-> call.board]]
        /\ UNCHANGED <<lib, now, last>>

\* The rename pass found no stale file.
RenameEnd(c) ==
    LET call == calls[c]
    IN  /\ call.pc = "save_board"
        /\ call.todo = {}
        /\ calls' = [calls EXCEPT ![c] =
                        [pc |-> "write", op |-> call.op, id |-> call.id, arg |-> call.arg,
                         loaded |-> call.loaded, board |-> call.board]]
        /\ UNCHANGED <<files, lib, now, last>>

\* fs::write(get_board_path(..), json), then Ok(board) to the caller.
WriteBoard(c) ==
    LET call == calls[c]
    IN  /\ call.pc = "write"
        /\ files' = WriteFile(files, get_board_path(call.board.name, call.board.id),
                              to_string_pretty(call.board))
        /\ calls' = [calls EXCEPT ![c] =
                        [pc |-> "done", op |-> call.op, id |-> call.id, arg |-> call.arg,
                         loaded |-> call.loaded, ret |-> Ok(call.board)]]
        /\ last' = Completed(c, Ok(call.board))
        /\ UNCHANGED <<lib, now>>

\* delete_board, one entry of its scan: the first board with the id is the
\* file to remove.
DeleteStep(c) ==
    /\ calls[c].pc = "delete_board"
    /\ \E p \in calls[c].todo :
        LET call == calls[c]
            e == ReadEntry(files, p)
        IN  calls' = [calls EXCEPT ![c] =
                        IF e.some /\ e.val.id = call.id
                        THEN [pc |-> "remove_file", op |-> call.op, id |-> call.id,
                              arg |-> call.arg, target |-> p]
                        ELSE [call EXCEPT !.todo = call.todo \ {p}]]
    /\ UNCHANGED <<files, lib, now, last>>

DeleteEnd(c) ==
    /\ calls[c].pc = "delete_board"
    /\ calls[c].todo = {}
    /\ calls' = [calls EXCEPT ![c] = Done(calls[c], Err(NotFound(calls[c].id)))]
    /\ last' = Completed(c, Err(NotFound(calls[c].id)))
    /\ UNCHANGED <<files, lib, now>>

\* `fs::remove_file(&path).map_err(|e| e.to_string())?; return Ok(());`:
\* the error of removing a file that has gone since it was read goes to the
\* caller as it is.
RemoveFound(c) ==
    LET call == calls[c]
        ret == IF call.target \in DOMAIN files THEN Ok(UnitValue)
               ELSE Err("No such file or directory (os error 2)")
    IN  /\ call.pc = "remove_file"
        /\ files' = RemoveFile(files, call.target)
        /\ calls' = [calls EXCEPT ![c] = Done(call, ret)]
        /\ last' = Completed(c, ret)
        /\ UNCHANGED <<lib, now>>

\* One more entry in the Vec load_all_boards collects (a bag, as above).
Push(acc, m) ==
    [x \in DOMAIN acc \cup {m} |->
        (IF x \in DOMAIN acc THEN acc[x] ELSE 0) + (IF x = m THEN 1 ELSE 0)]

\* load_all_boards, one entry of its scan.
ListStep(c) ==
    /\ calls[c].pc = "load_all_boards"
    /\ \E p \in calls[c].todo :
        LET call == calls[c]
            e == ReadEntry(files, p)
        IN  calls' = [calls EXCEPT ![c].todo = call.todo \ {p},
                                  ![c].acc = IF e.some
                                             THEN Push(call.acc, BoardMetadata(e.val))
                                             ELSE call.acc]
    /\ UNCHANGED <<files, lib, now, last>>

ListEnd(c) ==
    /\ calls[c].pc = "load_all_boards"
    /\ calls[c].todo = {}
    /\ calls' = [calls EXCEPT ![c] = Done(calls[c], Ok(calls[c].acc))]
    /\ last' = Completed(c, Ok(calls[c].acc))
    /\ UNCHANGED <<files, lib, now>>

\* The boards are set up by calls that run alone; then each caller
\* dispatches one command and the two run step by step.
StepNames == {<<"a">>}

StepUpdates == {u \in Updates : u.name.some \/ u = NoUpdate}

StepNext ==
    \/ AllIdle /\ Tick
    \/ AllIdle /\ \E name \in StepNames, bg_color \in BgColors : create_board(name, bg_color)
    \/ \E c \in Callers, id \in Ids : Begin(c, "get_board", id, None)
    \/ \E c \in Callers : Begin(c, "get_all_boards", 0, None)
    \/ \E c \in Callers, id \in Ids, updates \in StepUpdates :
          Begin(c, "update_board", id, updates)
    \/ \E c \in Callers, id \in Ids : Begin(c, "delete_board", id, None)
    \/ \E c \in Callers, id \in Ids, asset_id \in AssetIds :
          Begin(c, "delete_board_asset", id, asset_id)
    \/ \E c \in Callers : LoadStep(c)
    \/ \E c \in Callers : LoadEnd(c)
    \/ \E c \in Callers : SaveBegin(c)
    \/ \E c \in Callers : RenameStep(c)
    \/ \E c \in Callers : RemoveStale(c)
    \/ \E c \in Callers : RenameEnd(c)
    \/ \E c \in Callers : WriteBoard(c)
    \/ \E c \in Callers : DeleteStep(c)
    \/ \E c \in Callers : DeleteEnd(c)
    \/ \E c \in Callers : RemoveFound(c)
    \/ \E c \in Callers : ListStep(c)
    \/ \E c \in Callers : ListEnd(c)

StepSpec == Init /\ [][StepNext]_vars

(***************************************************************************)
(* The Asset Library call by call: add_to_all_assets and                   *)
(* delete_from_all_assets read all_assets.json whole (load_all_assets),    *)
(* change the Vec in memory and write it back whole (save_all_assets).     *)
(***************************************************************************)
\* load_all_assets and the work in memory that follows it, up to the call
\* of save_all_assets; arg is the (name, src) of an add, the id of a delete.
LibLoad(c, op, arg) ==
    LET loaded == load_all_assets(lib)
        existing == FindAsset(loaded.val, arg.name, arg.src)
        asset == [id |-> now_millis, name |-> arg.name, src |-> arg.src]
        ends(ret) == /\ calls' = [calls EXCEPT ![c] =
                                     [pc |-> "done", op |-> op, arg |-> arg, ret |-> ret]]
                     /\ last' = [op |-> op, caller |-> c, ret |-> ret]
        saves(all_assets, ret) ==
                     /\ calls' = [calls EXCEPT ![c] =
                                     [pc |-> "save_all_assets", op |-> op, arg |-> arg,
                                      all_assets |-> all_assets, ret |-> ret]]
                     /\ last' = last
    IN  /\ calls[c].pc = "idle"
        /\ IF ~loaded.ok THEN ends(loaded)
           ELSE IF op = "delete_from_all_assets"
                THEN saves(RetainNot(loaded.val, arg), Ok(UnitValue))
           ELSE IF existing.some THEN ends(Ok(existing.val))
           ELSE saves(Append(loaded.val, asset), Ok(asset))
        /\ UNCHANGED <<files, lib, now>>

\* save_all_assets: the Vec of this call replaces the document.
LibSave(c) ==
    LET call == calls[c]
    IN  /\ call.pc = "save_all_assets"
        /\ lib' = save_all_assets(call.all_assets)
        /\ calls' = [calls EXCEPT ![c] =
                        [pc |-> "done", op |-> call.op, arg |-> call.arg, ret |-> call.ret]]
        /\ last' = [op |-> call.op, caller |-> c, ret |-> call.ret]
        /\ UNCHANGED <<files, now>>

LibStepNext ==
    \/ Tick
    \/ AllIdle /\ \E name \in LibNames, src \in LibSrcs : cmd_add_to_all_assets(name, src)
    \/ \E c \in Callers, name \in LibNames, src \in LibSrcs :
          LibLoad(c, "add_to_all_assets", [name |-> name, src |-> src])
    \/ \E c \in Callers, id \in Ids : LibLoad(c, "delete_from_all_assets", id)
    \/ \E c \in Callers : LibSave(c)

LibStepSpec == Init /\ [][LibStepNext]_vars

(***************************************************************************)
\* The number of entries of a load_all_boards result that carry the id.
EntriesFor(listing, id) ==
    LET hit == {m \in DOMAIN listing.val : m.id = id}
        RECURSIVE Sum(_)
        Sum(S) == IF S = {} THEN 0
                  ELSE LET m == CHOOSE x \in S : TRUE IN listing.val[m] + Sum(S \ {m})
    IN  Sum(hit)

Renamed == last.op = "update_board" /\ last.ret.ok /\ last.loaded.val.name # last.ret.val.name

(***************************************************************************)
(* C1 (as claimed).  When update_board has changed a board's name, a       *)
(* following load_all_boards returns exactly one entry with the board's    *)
(* id, that entry carries the new name, and no file exists any more at the *)
(* path the board was written to under its old name.                       *)
(***************************************************************************)
C1_OldPathGone ==
    Renamed =>
        /\ EntriesFor(load_all_boards(files), last.id) = 1
        /\ \A m \in DOMAIN load_all_boards(files).val :
              m.id = last.id => m.name = last.ret.val.name
        /\ get_board_path(last.loaded.val.name, last.id) \notin DOMAIN files

(***************************************************************************)
(* C1 (amended).  When update_board has changed a board's name, a          *)
(* following load_all_boards returns exactly one entry with the board's    *)
(* id, that entry carries the new name, no document with the old name is   *)
(* left, and no file exists at the old path unless the new name sanitizes  *)
(* to the same file name, in which case that path holds the renamed board. *)
(***************************************************************************)
C1_RenameLeavesOneEntry ==
    Renamed =>
        LET old_path == get_board_path(last.loaded.val.name, last.id)
            new_path == get_board_path(last.ret.val.name, last.id)
        IN  /\ EntriesFor(load_all_boards(files), last.id) = 1
            /\ \A m \in DOMAIN load_all_boards(files).val :
                  m.id = last.id => m.name = last.ret.val.name
            /\ \A p \in EntriesWithId(files, last.id) :
                  BoardAt(files, p).name # last.loaded.val.name
            /\ old_path \in DOMAIN files =>
                  /\ old_path = new_path
                  /\ files[old_path] = to_string_pretty(last.ret.val)

\* A rename to a name with another file name, with a second board present.
C1_Witness ==
    /\ Renamed
    /\ sanitize_filename(last.loaded.val.name) # sanitize_filename(last.ret.val.name)
    /\ Cardinality(DOMAIN files) = 2

\* A rename between two names with the same file name.
C1_SamePathWitness ==
    /\ Renamed
    /\ sanitize_filename(last.loaded.val.name) = sanitize_filename(last.ret.val.name)

(***************************************************************************)
(* C2.  When create_board has succeeded, a load_board with the returned id *)
(* returns a board equal in every field to the board create_board          *)
(* returned; its createdAt equals its updatedAt, its layers and assets are *)
(* empty and it has no thumbnail.                                          *)
(***************************************************************************)
C2_CreateThenLoad ==
    (last.op = "create_board" /\ last.ret.ok) =>
        LET board == last.ret.val
        IN  /\ load_board(files, board.id) = {Ok(board)}
            /\ board.created_at = board.updated_at
            /\ board.layers = <<>>
            /\ board.assets = <<>>
            /\ board.thumbnail = None

\* A successful create_board next to a board of another millisecond.
C2_Witness ==
    /\ last.op = "create_board" /\ last.ret.ok
    /\ last.ret.val.name = <<"/">>
    /\ Cardinality(DOMAIN files) = 2
    /\ \E p \in ParsedEntries(files) : BoardAt(files, p).id # last.ret.val.id

(***************************************************************************)
(* C3.  When delete_board(id) has returned success, a following            *)
(* load_all_boards holds no entry with that id and load_board(id) fails    *)
(* with the not-found error.                                               *)
(***************************************************************************)
C3_DeletedIsGone ==
    (last.op = "delete_board" /\ last.ret.ok) =>
        /\ EntriesFor(load_all_boards(files), last.id) = 0
        /\ load_board(files, last.id) = {Err(NotFound(last.id))}

\* A successful delete_board that leaves another board in the directory.
C3_Witness ==
    /\ last.op = "delete_board" /\ last.ret.ok
    /\ ParsedEntries(files) # {}

(***************************************************************************)
(* C4.  A load_board, delete_board, update_board or delete_board_asset     *)
(* addressed to an id that no parseable document carries returns the error *)
(* "Board <id> not found" and leaves the boards directory as it was.       *)
(***************************************************************************)
C4_NotFoundChangesNothing ==
    [][(/\ last'.op \in {"get_board", "delete_board", "update_board", "delete_board_asset"}
        /\ EntriesWithId(files, last'.id) = {})
       => (/\ last'.ret = Err("Board " \o ToString(last'.id) \o " not found")
           /\ files' = files)]_vars

\* An update_board that failed on the id of a board whose file no longer
\* parses, while another board is stored.
C4_Witness ==
    /\ last.op = "update_board"
    /\ ~last.ret.ok
    /\ last.ret.err = "Board 2 not found"
    /\ get_board_path(<<"a">>, 2) \in DOMAIN files
    /\ ParsedEntries(files) # {}

(***************************************************************************)
(* C5.  An add_to_all_assets whose (name, src) is already in the library   *)
(* (an earlier add_to_all_assets put it there and no delete took it out)   *)
(* returns that entry, id included, and leaves the library document as it  *)
(* was; an add_to_all_assets of a pair not yet there appends exactly one   *)
(* entry.  So two adds of the same pair grow the library by one.           *)
(***************************************************************************)
C5_DedupInsert ==
    [][(last'.op = "add_to_all_assets" /\ last'.ret.ok) =>
        LET before == load_all_assets(lib).val
            after == load_all_assets(lib').val
            same == {i \in 1..Len(before) :
                        before[i].name = last'.name /\ before[i].src = last'.src}
        IN  IF same # {}
            THEN /\ lib' = lib
                 /\ \A i \in same : last'.ret.val = before[i]
            ELSE /\ Len(after) = Len(before) + 1
                 /\ SubSeq(after, 1, Len(before)) = before
                 /\ after[Len(after)] = last'.ret.val
                 /\ last'.ret.val.name = last'.name
                 /\ last'.ret.val.src = last'.src]_vars

\* An add_to_all_assets that returned an entry made in an earlier millisecond.
C5_Witness ==
    /\ last.op = "add_to_all_assets" /\ last.ret.ok
    /\ last.ret.val.id < now
    /\ Len(lib.array) >= 2

(***************************************************************************)
(* C6.  Two successful add_to_all_assets calls whose (name, src) pairs     *)
(* differ leave two entries that carry different ids, so that a            *)
(* delete_from_all_assets with one of the ids removes only that entry.     *)
(***************************************************************************)
C6_DistinctIds ==
    LET assets == load_all_assets(lib).val
    IN  \A i, j \in 1..Len(assets) :
            (assets[i].name # assets[j].name \/ assets[i].src # assets[j].src)
                => assets[i].id # assets[j].id

(***************************************************************************)
(* C7.  On an existing board, delete_board_asset(board_id, asset_id)       *)
(* returns and stores a board whose assets are the previous assets with an *)
(* id other than asset_id, in their previous order, whose updatedAt is at  *)
(* least the previous updatedAt, and whose id, name, bgColor, createdAt,   *)
(* layers and thumbnail are the previous ones.                             *)
(***************************************************************************)
C7_DeleteBoardAssetFrame ==
    (last.op = "delete_board_asset" /\ last.ret.ok) =>
        LET old == last.loaded.val
            new == last.ret.val
        IN  /\ new.assets = SelectSeq(old.assets, LAMBDA a : a.id # last.asset_id)
            /\ new.updated_at >= old.updated_at
            /\ new.id = old.id /\ new.name = old.name /\ new.bg_color = old.bg_color
            /\ new.created_at = old.created_at /\ new.layers = old.layers
            /\ new.thumbnail = old.thumbnail
            /\ load_board(files, last.id) = {Ok(new)}

\* A delete_board_asset that took two of four assets out, a millisecond or
\* more after the board was last written.
C7_Witness ==
    /\ last.op = "delete_board_asset" /\ last.ret.ok
    /\ last.loaded.val.assets = <<AssetX, AssetY, AssetZ, AssetW>>
    /\ last.ret.val.assets = <<AssetY, AssetZ>>
    /\ last.ret.val.updated_at > last.loaded.val.updated_at
    /\ last.ret.val.thumbnail.some

(***************************************************************************)
(* C8.  An update_board on an existing board with an update record whose   *)
(* fields are all absent stores and returns a board that differs from the  *)
(* board stored before in updatedAt only, at the same file path.           *)
(***************************************************************************)
C8_EmptyUpdateFrame ==
    [][(last'.op = "update_board" /\ last'.ret.ok /\ last'.updates = NoUpdate) =>
        /\ DOMAIN files' = DOMAIN files
        /\ EntriesWithId(files', last'.id) = EntriesWithId(files, last'.id)
        /\ \A p \in DOMAIN files :
              IF p \in EntriesWithId(files, last'.id)
              THEN /\ BoardAt(files', p) = last'.ret.val
                   /\ [BoardAt(files', p) EXCEPT !.updated_at = BoardAt(files, p).updated_at]
                          = BoardAt(files, p)
              ELSE files'[p] = files[p]]_vars

\* An empty update of a board that has content, in a later millisecond.
C8_Witness ==
    /\ last.op = "update_board" /\ last.ret.ok /\ last.updates = NoUpdate
    /\ last.ret.val.thumbnail.some
    /\ last.ret.val.assets # <<>>
    /\ last.ret.val.updated_at > last.loaded.val.updated_at

(***************************************************************************)
(* C9.  Every stored board keeps the id and the createdAt that             *)
(* create_board gave it (both are the creation time) and lies at the path  *)
(* derived from its sanitized name and its id; update_board and            *)
(* delete_board_asset return a board with the id they were called with and *)
(* the createdAt they loaded, written at the path of its current name.     *)
(***************************************************************************)
C9_IdAndCreatedAtStable ==
    /\ \A p \in ParsedEntries(files) :
          /\ BoardAt(files, p).created_at = BoardAt(files, p).id
          /\ p = sanitize_filename(BoardAt(files, p).name)
                    \o <<"-", ToString(BoardAt(files, p).id), ".json">>
    /\ (last.op \in {"update_board", "delete_board_asset"} /\ last.ret.ok) =>
          /\ last.ret.val.id = last.id
          /\ last.loaded.val.id = last.id
          /\ last.ret.val.created_at = last.loaded.val.created_at
          /\ EntriesWithId(files, last.id) =
                {sanitize_filename(last.ret.val.name) \o <<"-", ToString(last.id), ".json">>}

\* A rename to another file name, after the millisecond of the creation.
C9_Witness ==
    /\ Renamed
    /\ sanitize_filename(last.loaded.val.name) # sanitize_filename(last.ret.val.name)
    /\ last.ret.val.updated_at > last.ret.val.created_at

(***************************************************************************)
(* C10.  After a board whose thumbnail, viewState, strokes, objects and    *)
(* groups are all populated has been saved, a load_board with its id       *)
(* returns a board in which each of the five has the value that was saved. *)
(***************************************************************************)
AllOptionalPopulated(b) ==
    b.thumbnail.some /\ b.view_state.some /\ b.strokes.some /\ b.objects.some /\ b.groups.some

MetadataOfDoc(doc) ==
    [id |-> doc.id, name |-> doc.name.str, bg_color |-> doc.bgColor.str,
     created_at |-> doc.createdAt, updated_at |-> doc.updatedAt,
     thumbnail |-> IF doc.thumbnail = JNull THEN None ELSE Some(doc.thumbnail.str)]

C12_ListingSkipsCorrupt ==
    (last.op = "get_all_boards") =>
        LET good == {p \in DOMAIN files : "id" \in DOMAIN files[p]}
        IN  /\ last.ret.ok
            /\ \A m \in DOMAIN last.ret.val :
                  last.ret.val[m] = Cardinality({p \in good : MetadataOfDoc(files[p]) = m})
            /\ \A p \in good : MetadataOfDoc(files[p]) \in DOMAIN last.ret.val

\* A listing of a directory that holds a board with a thumbnail and a file
\* that does not parse.
C12_Witness ==
    /\ last.op = "get_all_boards"
    /\ \E p \in DOMAIN files : files[p] = TruncatedDoc
    /\ \E m \in DOMAIN last.ret.val : m.thumbnail.some

(***************************************************************************)
(* C13.  With a library document that reads and parses,                    *)
(* delete_from_all_assets(id) returns success whether or not an entry      *)
(* carries the id; afterwards no entry has the id, the other entries are   *)
(* kept in their order, and a second call with the same id leaves the      *)
(* document as the first call left it.                                     *)
(***************************************************************************)
C13_DeleteFromLibrary ==
    [][(last'.op = "delete_from_all_assets" /\ load_all_assets(lib).ok) =>
        LET before == load_all_assets(lib).val
            after == load_all_assets(lib')
            keep(a) == a.id # last'.id
        IN  /\ last'.ret = Ok(UnitValue)
            /\ after.ok
            /\ \A i \in 1..Len(after.val) : after.val[i].id # last'.id
            /\ after.val = SelectSeq(before, keep)
            /\ delete_from_all_assets(lib', last'.id) = <<Ok(UnitValue), lib'>>]_vars

\* A delete_from_all_assets of an id no entry carried, on a library that
\* holds entries.
C13_Witness ==
    /\ last.op = "delete_from_all_assets" /\ last.ret.ok
    /\ Len(lib.array) >= 2
    /\ \E i \in 1..Len(lib.array) : lib.array[i].id < last.id

\* A delete_from_all_assets that took an entry out and kept a later one.
C13_RemovedWitness ==
    /\ last.op = "delete_from_all_assets" /\ last.ret.ok
    /\ Len(lib.array) >= 1
    /\ \A i \in 1..Len(lib.array) : lib.array[i].id > last.id

(***************************************************************************)
(* C17.  When all_assets.json is missing or does not parse,                *)
(* load_all_assets, add_to_all_assets and delete_from_all_assets each      *)
(* return an error and leave the file exactly as it was; none of them      *)
(* replaces the document.                                                  *)
(***************************************************************************)
C17_UnreadableLibraryKept ==
    [][(/\ last'.op \in {"get_all_assets", "add_to_all_assets", "delete_from_all_assets"}
        /\ "array" \notin DOMAIN lib)
       => (~last'.ret.ok /\ lib' = lib)]_vars

\* An add_to_all_assets that failed on a document cut short, which is still
\* there as it was.
C17_Witness ==
    /\ last.op = "add_to_all_assets" /\ ~last.ret.ok
    /\ lib = TruncatedDoc

\* A delete_from_all_assets that failed on a missing file, still missing.
C17_MissingWitness ==
    /\ last.op = "delete_from_all_assets" /\ ~last.ret.ok
    /\ lib = MissingFile

(***************************************************************************)
(* C16.  An update_board or a delete_board_asset on a board that has a     *)
(* thumbnail never leaves it without one: an update that carries a         *)
(* thumbnail stores that one, an update that carries none and every        *)
(* delete_board_asset keep the thumbnail the board had, in the board       *)
(* returned and in the document stored.                                    *)
(***************************************************************************)
C16_ThumbnailNeverCleared ==
    (/\ last.op \in {"update_board", "delete_board_asset"}
     /\ last.ret.ok
     /\ last.loaded.val.thumbnail.some)
    => LET expected == IF last.op = "update_board" /\ last.updates.thumbnail.some
                       THEN last.updates.thumbnail
                       ELSE last.loaded.val.thumbnail
       IN  /\ last.ret.val.thumbnail.some
           /\ last.ret.val.thumbnail = expected
           /\ \A r \in load_board(files, last.ret.val.id) :
                  r.ok /\ r.val.thumbnail = expected

\* A board with a thumbnail went through an update_board that carried none.
C16_Witness ==
    /\ last.op = "update_board" /\ last.ret.ok
    /\ last.loaded.val.thumbnail.some
    /\ ~last.updates.thumbnail.some
    /\ last.updates.name.some

\* A board with a thumbnail went through a delete_board_asset.
C16_AssetWitness ==
    /\ last.op = "delete_board_asset" /\ last.ret.ok
    /\ last.loaded.val.thumbnail.some
    /\ Len(last.ret.val.assets) < Len(last.loaded.val.assets)

(***************************************************************************)
(* C18.  A create_board leaves every board that was stored before it in    *)
(* place, document unchanged: the new board gets an id no stored board     *)
(* has, also when two boards are created within one millisecond.           *)
(***************************************************************************)
C18_CreateKeepsOtherBoards ==
    [][(last'.op = "create_board") =>
        \A p \in ParsedEntries(files) :
            p \in DOMAIN files' /\ files'[p] = files[p]]_vars

(***************************************************************************)
(* C14.  The asset library and the boards are independent:                 *)
(* add_to_all_assets and delete_from_all_assets leave every board document *)
(* as it was, and create_board, update_board, delete_board and             *)
(* delete_board_asset leave all_assets.json as it was, also when an entry  *)
(* on one side has the name, the source or the id of an entry on the       *)
(* other.                                                                  *)
(***************************************************************************)
C14_LibraryAndBoardsIndependent ==
    [][/\ (last'.op \in {"add_to_all_assets", "delete_from_all_assets"}) => files' = files
       /\ (last'.op \in {"create_board", "update_board", "delete_board",
                          "delete_board_asset"}) => lib' = lib]_vars

\* A delete_from_all_assets of an id that an asset of a stored board carries.
C14_Witness ==
    /\ last.op = "delete_from_all_assets" /\ last.ret.ok
    /\ \E p \in ParsedEntries(files) :
          \E i \in 1..Len(BoardAt(files, p).assets) :
              BoardAt(files, p).assets[i].id = last.id

\* A delete_board_asset of an id that a library entry carries, and a library
\* entry that has the name and source of an asset of the board.
C14_BoardSideWitness ==
    /\ last.op = "delete_board_asset" /\ last.ret.ok
    /\ \E i \in 1..Len(lib.array) : lib.array[i].id = last.asset_id
    /\ \E i \in 1..Len(lib.array), j \in 1..Len(last.ret.val.assets) :
          /\ lib.array[i].name.str = last.ret.val.assets[j].name
          /\ lib.array[i].src.str = last.ret.val.assets[j].src

(***************************************************************************)
(* C11.  When two update_board calls on one id have run their steps in any *)
(* alternation and both have returned a board, the directory holds exactly *)
(* one document with that id, and it is the board of the call that wrote   *)
(* last, also when the two calls give the board different names.           *)
(***************************************************************************)
C11_LastWriterWins ==
    (/\ \A c \in Callers : /\ calls[c].pc = "done"
                           /\ calls[c].op = "update_board"
                           /\ calls[c].ret.ok
     /\ \A c, d \in Callers : calls[c].id = calls[d].id)
    => LET board == last.ret.val
       IN  /\ {p \in DOMAIN files : Parses(files[p]) /\ files[p].id = last.id}
                = {get_board_path(board.name, board.id)}
           /\ files[get_board_path(board.name, board.id)] = to_string_pretty(board)

(***************************************************************************)
(* C15.  A scan of load_all_boards, load_board, save_board's rename pass   *)
(* or delete_board that meets a file another call has removed skips it:    *)
(* no call ends with an error other than "Board {id} not found", which is  *)
(* what a delete_board of a board that has gone returns.                   *)
(***************************************************************************)
C15_VanishedFileSkipped ==
    \A c \in Callers :
        (calls[c].pc = "done" /\ ~calls[c].ret.ok)
            => calls[c].ret.err = NotFound(calls[c].id)

(***************************************************************************)
(* C20.  When a delete_board has returned success and an update_board or   *)
(* a delete_board_asset on the same id, which had loaded the board before  *)
(* the file was removed, writes after it, no document with the id is left. *)
(***************************************************************************)
C20_DeletedStaysDeleted ==
    \A d, u \in Callers :
        (/\ calls[d].pc = "done" /\ calls[u].pc = "done"
         /\ calls[d].op = "delete_board" /\ calls[d].ret.ok
         /\ calls[u].op \in {"update_board", "delete_board_asset"}
         /\ calls[u].id = calls[d].id
         /\ calls[u].ret.ok
         /\ last.caller = u)
        => EntriesWithId(files, calls[d].id) = {}

(***************************************************************************)
(* C19.  Once every call in flight has returned, the entry that a          *)
(* successful add_to_all_assets returned is in the library, unless a       *)
(* delete_from_all_assets named its id; so two adds of different pairs     *)
(* whose loads and saves alternate both leave their entry.                 *)
(***************************************************************************)
C19_NoLostInsert ==
    (\A c \in Callers : calls[c].pc = "done")
    => \A c \in Callers :
          (/\ calls[c].op = "add_to_all_assets"
           /\ calls[c].ret.ok
           /\ \A d \in Callers : calls[d].op = "delete_from_all_assets"
                                    => calls[d].arg # calls[c].ret.val.id)
          => /\ load_all_assets(lib).ok
             /\ \E i \in 1..Len(load_all_assets(lib).val) :
                   load_all_assets(lib).val[i] = calls[c].ret.val

(***************************************************************************)
(* C21.  update_board(id), delete_board_asset(id, _) and delete_board(id)  *)
(* leave every document whose stored id is another one where it was and    *)
(* as it was, and bring no such document into being, also when the other   *)
(* board's name sanitizes to the same string as the name of the board the  *)
(* call is about.                                                          *)
(***************************************************************************)
C21_OtherBoardsUntouched ==
    [][(last'.op \in {"update_board", "delete_board_asset", "delete_board"}) =>
        /\ \A p \in ParsedEntries(files) :
              files[p].id # last'.id => (p \in DOMAIN files' /\ files'[p] = files[p])
        /\ \A p \in ParsedEntries(files') :
              files'[p].id # last'.id => (p \in DOMAIN files /\ files[p] = files'[p])]_vars

\* An update_board that renamed a board to a name that sanitizes to the
\* string another stored board's name sanitizes to.
C21_Witness ==
    /\ last.op = "update_board" /\ last.ret.ok
    /\ last.loaded.val.name # last.ret.val.name
    /\ \E p \in ParsedEntries(files) :
          /\ files[p].id # last.id
          /\ sanitize_filename(files[p].name.str) = sanitize_filename(last.ret.val.name)

\* A delete_board that removed a board while a board of another id, with a
\* name that sanitizes to "a", stays stored.
C21_DeleteWitness ==
    /\ last.op = "delete_board" /\ last.ret.ok
    /\ \E p \in ParsedEntries(files) :
          /\ files[p].id # last.id
          /\ sanitize_filename(files[p].name.str) = <<"a">>

====
